---- MODULE Spec2Model ----
(***************************************************************************)
(* The surbtc REST client (Client of index.js): every facade operation,    *)
(* the order pager (_getOrderPages) and the order state poller             *)
(* (_getOrderState), run against a nondeterministic transport and server.  *)
(*                                                                         *)
(* One JavaScript turn (a facade call up to its first suspension, an       *)
(* http .end handler with every callback it calls, a timer callback) is    *)
(* one action.                                                             *)
(***************************************************************************)
EXTENDS Integers, Sequences, FiniteSets, TLC

\* ------------------------------------------------------------- bounds
\* Largest current_page / total_pages a server response reports.
MaxPages == 3
\* Largest number of getOrderId refetches of one poll the server answers.
MaxPolls == 3
\* Largest value of the millisecond clock, which starts at 0.
MaxClock == 1

\* ------------------------------------------------------ program constants
\* setTimeout(..., 500) of _getOrderState
PollDelay == 500
\* Number.prototype.toSatoshi of bitcoin-math: satoshis in one bitcoin
SatoshiPerBtc == 100000000
\* opts.amount * 100 of requestWithdrawal and registerDeposit
CentsPerUnit == 100

\* ------------------------------------------------------------- values
\* JavaScript null / undefined.
Null == [isNull |-> TRUE]

\* Concurrent callers of one client.
CallIds == {1, 2}

\* A URL is the sequence of its characters, so that indexOf is computed.
\* 'https://www.surbtc.com/api/v2', the default of options.api
DefaultApi ==
  <<"h","t","t","p","s",":","/","/","w","w","w",".","s","u","r","b","t","c",
    ".","c","o","m","/","a","p","i","/","v","2">>
\* 'https://stg.surbtc.com/api/v1', the staging endpoint of the tests
StagingApi ==
  <<"h","t","t","p","s",":","/","/","s","t","g",".","s","u","r","b","t","c",
    ".","c","o","m","/","a","p","i","/","v","1">>
\* 'stg.surbtc.com/api/v1': a staging endpoint configured without a scheme
BareStagingApi ==
  <<"s","t","g",".","s","u","r","b","t","c",
    ".","c","o","m","/","a","p","i","/","v","1">>
ApiUrls == {DefaultApi, StagingApi, BareStagingApi}

Secrets == {"", "s3cr3t"}

\* Order states of the exchange.
OrderStates == {"received", "pending", "traded", "canceling", "canceled", "filled"}
\* States of the orders of a listing page.
PageStates == {"pending", "traded"}
OrderIds == {7}
MarketIds == {"btc-clp"}
\* Unfiltered totals a server reports in meta.total_count.
TotalCounts == {9}
\* error.response.error: the server-declared error of an HTTP error response
ServerErrors == {"forbidden"}

\* String.prototype.indexOf: the first 0-based index at which needle occurs
\* in hay, -1 when it does not occur.
IndexOf(hay, needle) ==
  LET n == Len(needle)
      hits == {i \in 1..(Len(hay) - n + 1) : SubSeq(hay, i, i + n - 1) = needle}
  IN  IF hits = {} THEN -1
      ELSE (CHOOSE i \in hits : \A j \in hits : i <= j) - 1

\* ------------------------------------------- lib/response_handler (result envelopes)
\* The envelope {success, error_type, ...body}; fields a body lacks are Null.
Envelope(ok, kind, order, orders, meta) ==
  [success |-> ok, error_type |-> kind, order |-> order, orders |-> orders,
   meta |-> meta]

\* responseHandler.invalidRequest(err, type, null): err.json
invalidRequest(type) == Envelope(FALSE, type, Null, <<>>, Null)

\* responseHandler.errorSet(error, error.response.error): error.json
errorSet(serverError) == Envelope(FALSE, serverError, Null, <<>>, Null)

\* responseHandler.success(response, response.body): response.json, the parsed
\* body passed through and marked a success.
success(body) == Envelope(TRUE, "", body.order, body.orders, body.meta)

\* A response body: an order, a page of orders with its meta, or neither.
Body(order, orders, meta) == [order |-> order, orders |-> orders, meta |-> meta]

\* ------------------------------------------------------------ transport
\* What the transport hands to .end(function (error, response)):
\*   ok       response.body is the parsed JSON body
\*   httperr  error.response.error is the server-declared error
\*   neterr   a network-level failure: error.response is undefined
Response(outcome, body, serverError) ==
  [outcome |-> outcome, body |-> body, error |-> serverError]

\* new Date().getTime(): the clock, in milliseconds.
VARIABLE now

\* A field that is absent: the message of a GET has no data.
Absent == [isAbsent |-> TRUE]

\* Client.prototype._getHmac. The sha384 HMAC under this.secret is represented
\* by the message it digests: the method, the path (the api's path and the
\* request path with its query string), the data of a POST or PUT, the nonce.
\* Any other method is not signed (undefined).
_getHmac(nonce, method, path, data) ==
  IF method = "GET"
  THEN [method |-> "GET", path |-> path, data |-> Absent, nonce |-> nonce]
  ELSE IF method \in {"POST", "PUT"}
  THEN [method |-> method, path |-> path, data |-> data, nonce |-> nonce]
  ELSE Null

\* Client.prototype._getAuthHeaders: one timestamp is the X-SBTC-NONCE header
\* and the nonce of the signed message.
_getAuthHeaders(method, path, data) ==
  LET timestamp == now
  IN  [nonce |-> timestamp, signature |-> _getHmac(timestamp, method, path, data)]

\* A request handed to superagent: http.<method>(_getFullUrl(path)), .send(body)
\* and .set(_getAuthHeaders(signedMethod, path, signedBody)).
Request(method, path, body, signedMethod, signedBody) ==
  [method |-> method, path |-> path, body |-> body,
   headers |-> _getAuthHeaders(signedMethod, path, signedBody)]

\* What a facade function has done when it returns: called its callback with
\* (err, res), thrown, or handed a request to the transport.
CallsBack(e, r) == [kind |-> "callback", err |-> e, res |-> r, req |-> Null]
Throws == [kind |-> "throw", err |-> Null, res |-> Null, req |-> Null]
Sends(req) == [kind |-> "send", err |-> Null, res |-> Null, req |-> req]

\* Mutant of ApiKeyMissing: the secret is never checked.
ApiKeyMissing_Unchecked(cl) == FALSE

\* "Requires auth": if (this.secret === '') return callback(err.json, null)
ApiKeyMissing(cl) == cl.secret = ""

ApiKeyRequired == invalidRequest("InvalidRequest:ApiKeyRequired")

\* ------------------------------------------------------- library helpers
\* _.capitalize, _.lowerCase and _.toUpper on the strings the model passes.
capitalize(s) ==
  CASE s = "bid" -> "Bid" [] s = "ASK" -> "Ask" [] OTHER -> s
lowerCase(s) ==
  CASE s = "bid" -> "bid" [] s = "ASK" -> "ask" [] OTHER -> s
toUpper(s) ==
  CASE s = "btc" -> "BTC" [] s = "clp" -> "CLP" [] s = "cop" -> "COP" [] OTHER -> s

\* bitcoinAddress.validate(address, type) of bitcoin-address: a main-network
\* address is valid for 'prod' only, a test-network one for 'testnet' only.
Addresses == {"mainnetAddress", "testnetAddress", "notAnAddress"}
validate(address, type) ==
  \/ type = "prod" /\ address = "mainnetAddress"
  \/ type = "testnet" /\ address = "testnetAddress"

\* require('./lib/banks').colombia: the banks registerBankAccount knows.
colombiaBanks == <<[name |-> "Bancolombia", id |-> 1007]>>

\* _.find(collection, {name: name}): the first match, Null (undefined) if none.
find(collection, name) ==
  LET hits == {i \in 1..Len(collection) : collection[i].name = name}
  IN  IF hits = {} THEN Null
      ELSE collection[CHOOSE i \in hits : \A j \in hits : i <= j]

\* ------------------------------------------------ facade: single requests
\* Each operator is the function's synchronous part, up to the request it
\* hands to the transport.

\* Client.prototype.getBalances
getBalances(cl, currency) ==
  LET path == IF currency # "" THEN <<"/balances", "/", currency>>
              ELSE <<"/balances">>
  IN  IF ApiKeyMissing(cl) THEN CallsBack(ApiKeyRequired, Null)
      ELSE Sends(Request("GET", path, Null, "GET", Null))

\* Client.prototype.getExchangeFee. marketOrder is "" (absent), "true", or
\* "function" (the three-argument call, which passes its callback third and
\* leaves the callback parameter undefined until line 127).
getExchangeFee(cl, marketId, type, marketOrder) ==
  LET path == <<"/markets/", marketId, "/fee_percentage?type=", capitalize(type)>>
  IN  IF ApiKeyMissing(cl)
      THEN IF marketOrder = "function" THEN Throws
           ELSE CallsBack(ApiKeyRequired, Null)
      ELSE Sends(Request("GET",
                         IF marketOrder = "true"
                         THEN path \o <<"&market_order=true">> ELSE path,
                         Null, "GET", Null))

\* The data of getQuotation and getReverseQuotation.
Quotation(type, reverse, amount) ==
  [quotation |-> [type |-> lowerCase(type), reverse |-> reverse, amount |-> amount]]

\* Client.prototype.getQuotation
getQuotation(cl, marketId, type, amount) ==
  LET path == <<"/markets/", marketId, "/quotations">>
      data == Quotation(type, FALSE, amount)
  IN  IF ApiKeyMissing(cl) THEN CallsBack(ApiKeyRequired, Null)
      ELSE Sends(Request("POST", path, data, "POST", data))

\* Client.prototype.getReverseQuotation
getReverseQuotation(cl, marketId, type, amount) ==
  LET path == <<"/markets/", marketId, "/quotations">>
      data == Quotation(type, TRUE, amount)
  IN  IF ApiKeyMissing(cl) THEN CallsBack(ApiKeyRequired, Null)
      ELSE Sends(Request("POST", path, data, "POST", data))

\* Client.prototype.createOrder
createOrder(cl, marketId, order) ==
  LET path == <<"/markets/", marketId, "/orders">>
  IN  IF ApiKeyMissing(cl) THEN CallsBack(ApiKeyRequired, Null)
      ELSE Sends(Request("POST", path, order, "POST", order))

\* Client.prototype.getOrdersRaw: page 0 is falsy and adds no query string.
getOrdersRaw(cl, marketId, page) ==
  LET path == <<"/markets/", marketId, "/orders">>
  IN  IF ApiKeyMissing(cl) THEN CallsBack(ApiKeyRequired, Null)
      ELSE Sends(Request("GET",
                         IF page # 0 THEN path \o <<"?page=", ToString(page)>>
                         ELSE path,
                         Null, "GET", Null))

\* Client.prototype.getOrderId
getOrderId(cl, orderId) ==
  LET path == <<"/orders/", ToString(orderId)>>
  IN  IF ApiKeyMissing(cl) THEN CallsBack(ApiKeyRequired, Null)
      ELSE Sends(Request("GET", path, Null, "GET", Null))

\* Client.prototype.cancelOrderId, up to the request
cancelOrderId(cl, orderId) ==
  LET path == <<"/orders/", ToString(orderId)>>
      data == [state |-> "canceling"]
  IN  IF ApiKeyMissing(cl) THEN CallsBack(ApiKeyRequired, Null)
      ELSE Sends(Request("PUT", path, data, "PUT", data))

\* Client.prototype.cancelOrderId of src/index.js (the api/v1 client), up to
\* the request: the headers are those of a GET, the request is a PUT with a body.
cancelOrderIdV1(cl, orderId) ==
  LET path == <<"/orders/", ToString(orderId)>>
  IN  IF ApiKeyMissing(cl) THEN CallsBack(ApiKeyRequired, Null)
      ELSE Sends(Request("PUT", path, [state |-> "canceling"], "GET", Null))

\* Client.prototype.registerBankAccount: the bank is looked up, and .id read
\* off the result, before the secret is checked.
registerBankAccount(cl, opts) ==
  LET path == <<"/fiat_accounts/", toUpper(opts.bank_currency)>>
      bank == find(colombiaBanks, opts.bank_name)
      surbtcOpts == [account_number |-> opts.bank_account_number,
                     bank_id |-> bank.id]
  IN  IF bank = Null THEN Throws
      ELSE IF ApiKeyMissing(cl) THEN CallsBack(ApiKeyRequired, Null)
      ELSE Sends(Request("PUT", path, surbtcOpts, "PUT", surbtcOpts))

\* The network whose rules requestWithdrawal applies to a BTC target address:
\* "testnet", "prod", or "" when neither test of lines 495-496 applies.
AddressNetwork(api) ==
  IF IndexOf(api, <<"s","t","g">>) > 0 THEN "testnet"
  ELSE IF IndexOf(api, <<"s","t","g">>) < 0 THEN "prod"
  ELSE ""

\* Client.prototype.requestWithdrawal
requestWithdrawal(cl, opts) ==
  LET path == <<"/withdrawals">>
      currency == toUpper(opts.currency)
      net == AddressNetwork(cl.api)
      invalid == /\ currency = "BTC"
                 /\ net # ""
                 /\ ~validate(opts.target_address, net)
      withdrawalOpts ==
        [withdrawal_data |->
           IF currency = "BTC" THEN [target_address |-> opts.target_address]
           ELSE Null,
         amount |-> IF currency = "BTC" THEN opts.amount * SatoshiPerBtc
                    ELSE IF currency \in {"CLP", "COP"}
                         THEN opts.amount * CentsPerUnit
                    ELSE 0,
         currency |-> currency]
  IN  IF invalid
      THEN CallsBack(invalidRequest("InvalidRequest:InvalidBitcoinAddress"), Null)
      ELSE IF ApiKeyMissing(cl) THEN CallsBack(ApiKeyRequired, Null)
      ELSE Sends(Request("POST", path, withdrawalOpts, "POST", withdrawalOpts))

\* Client.prototype.registerDeposit
registerDeposit(cl, opts) ==
  LET path == <<"/deposits">>
      depositOpts == [amount |-> opts.amount * CentsPerUnit,
                      currency |-> toUpper(opts.currency)]
  IN  IF ApiKeyMissing(cl) THEN CallsBack(ApiKeyRequired, Null)
      ELSE Sends(Request("POST", path, depositOpts, "POST", depositOpts))

\* --------------------------------------------------------- .end handlers
\* The handler every single-request function passes to .end (lines 341-348 and
\* its copies): errorSet reads error.response.error, which throws a TypeError
\* when the failure carries no response.
end(resp) ==
  IF resp.outcome = "ok" THEN CallsBack(Null, success(resp.body))
  ELSE IF resp.outcome = "httperr" THEN CallsBack(errorSet(resp.error), Null)
  ELSE Throws

\* Mutant of ValidForCanceling: only 'canceled' passes.
ValidForCanceling_OnlyCanceled(state) == state = "canceled"

\* response.json.order.state is 'canceling' or 'canceled' (line 422)
ValidForCanceling(state) == state \in {"canceling", "canceled"}

\* The .end handler of cancelOrderId
endCancelOrderId(resp) ==
  IF resp.outcome = "ok"
  THEN LET json == success(resp.body)
       IN  IF json.order = Null THEN Throws
           ELSE IF ~ValidForCanceling(json.order.state)
           THEN CallsBack([json EXCEPT !.success = FALSE,
                                       !.error_type = "order_not_valid_for_canceling"],
                          Null)
           ELSE CallsBack(Null, json)
  ELSE end(resp)

\* ------------------------------------------------------------- the pager
\* _.filter(orders, {state: state})
filter(orders, state) ==
  LET Keep(o) == o.state = state IN SelectSeq(orders, Keep)

\* Mutant of concat: the new page is put in front.
concat_Prepended(accumulated, page) == page \o accumulated

\* _.concat(accumulated, page)
concat(accumulated, page) == accumulated \o page

\* Mutant of MorePages: the loop stops one page early.
MorePages_OneShort(orders, page) ==
  /\ orders.success
  /\ "total_pages" \in DOMAIN orders.meta
  /\ page + 1 < orders.meta.total_pages

\* orders.success && page < orders.meta.total_pages (line 273); the comparison
\* with an undefined total_pages is false.
MorePages(orders, page) ==
  /\ orders.success
  /\ "total_pages" \in DOMAIN orders.meta
  /\ page < orders.meta.total_pages

\* page === orders.meta.total_pages (line 268)
AtLastPage(page, meta) == page = meta.total_pages

\* Client.prototype._getOrderPages and the callback it gives getOrdersRaw
\* (lines 276-286). The result: the accumulator as the turn leaves it, the
\* page of the request it sent, and what it did.
RECURSIVE _getOrderPages(_, _, _, _)
\* Mutant of getOrdersRawCallback: the meta of the page that arrived replaces
\* the meta of the first page.
getOrdersRawCallback_ReadsLaterMeta(cl, orders, marketId, state, page, error, response) ==
  IF error # Null
  THEN [orders |-> orders, page |-> page, out |-> CallsBack(error, Null)]
  ELSE _getOrderPages(cl,
                      [orders EXCEPT !.orders = concat(@, response.orders),
                                     !.meta = [response.meta EXCEPT
                                                 !.current_page = page]],
                      marketId, state)

getOrdersRawCallback(cl, orders, marketId, state, page, error, response) ==
  IF error # Null
  THEN [orders |-> orders, page |-> page, out |-> CallsBack(error, Null)]
  ELSE _getOrderPages(cl,
                      [orders EXCEPT !.orders = concat(@, response.orders),
                                     !.meta.current_page = page],
                      marketId, state)

\* Mutant of _getOrderPages: the request is for the page it is at, not the
\* next one.
_getOrderPages_SamePage(cl, orders, marketId, state) ==
  IF orders.meta = Null
  THEN [orders |-> orders, page |-> 0, out |-> Throws]
  ELSE
    LET page == orders.meta.current_page
        filtering == orders.success /\ state # ""
        kept == IF filtering THEN filter(orders.orders, state) ELSE orders.orders
        meta == IF filtering /\ AtLastPage(page, orders.meta)
                THEN [total_count |-> Len(kept)]
                ELSE orders.meta
        filtered == [orders EXCEPT !.orders = kept, !.meta = meta]
    IN  IF MorePages(filtered, page)
        THEN LET raw == getOrdersRaw(cl, marketId, page)
             IN  IF raw.kind = "send"
                 THEN [orders |-> filtered, page |-> page, out |-> raw]
                 ELSE getOrdersRawCallback(cl, filtered, marketId, state,
                                           page, raw.err, raw.res)
        ELSE [orders |-> filtered, page |-> page, out |-> CallsBack(Null, filtered)]

_getOrderPages(cl, orders, marketId, state) ==
  IF orders.meta = Null
  THEN [orders |-> orders, page |-> 0, out |-> Throws]
  ELSE
    LET page == orders.meta.current_page
        filtering == orders.success /\ state # ""
        kept == IF filtering THEN filter(orders.orders, state) ELSE orders.orders
        meta == IF filtering /\ AtLastPage(page, orders.meta)
                THEN [total_count |-> Len(kept)]
                ELSE orders.meta
        filtered == [orders EXCEPT !.orders = kept, !.meta = meta]
    IN  IF MorePages(filtered, page)
        THEN LET raw == getOrdersRaw(cl, marketId, page + 1)
             IN  IF raw.kind = "send"
                 THEN [orders |-> filtered, page |-> page + 1, out |-> raw]
                 ELSE getOrdersRawCallback(cl, filtered, marketId, state,
                                           page + 1, raw.err, raw.res)
        ELSE [orders |-> filtered, page |-> page, out |-> CallsBack(Null, filtered)]

\* Client.prototype.pollOrders
pollOrders(cl, orders, marketId, state) == _getOrderPages(cl, orders, marketId, state)

\* ------------------------------------------------------------ the poller
\* setTimeout(function () { loopFunction(response, ...) }, 500)
Sleeps(response) == [kind |-> "timer", err |-> Null, res |-> response, req |-> Null]

\* Mutant of NeedsRefetch: a canceled order is not polled any further.
NeedsRefetch_StopsWhenCanceled(order, status) ==
  order.success /\ order.order.state # status /\ order.order.state # "canceled"

\* order.success && order.order.state !== status (line 295)
NeedsRefetch(order, status) == order.success /\ order.order.state # status

\* Mutant of getOrderIdCallback: the refetched order is checked at once,
\* with no delay.
getOrderIdCallback_NoDelay(error, response) ==
  IF error # Null THEN CallsBack(error, Null) ELSE CallsBack(Null, response)

\* The callback _getOrderState gives getOrderId (lines 296-304)
getOrderIdCallback(error, response) ==
  IF error # Null THEN CallsBack(error, Null) ELSE Sleeps(response)

\* Client.prototype._getOrderState
_getOrderState(cl, order, status) ==
  IF order.success /\ order.order = Null THEN Throws
  ELSE IF NeedsRefetch(order, status)
  THEN LET got == getOrderId(cl, order.order.id)
       IN  IF got.kind = "send" THEN got
           ELSE getOrderIdCallback(got.err, got.res)
  ELSE CallsBack(Null, order)

\* Client.prototype.pollOrderState
pollOrderState(cl, order, status) == _getOrderState(cl, order, status)

\* ------------------------------------------------------------------ state
VARIABLES
  client,    \* the Client: api, key, secret, headers (set by the constructor)
  callers,   \* the callers that use the client
  pc,        \* per caller: "idle", "active" (a request or timer is outstanding),
             \*   "done" (its callback was called), "thrown" (an exception escaped)
  op,        \* per caller: the facade operation it called
  args,      \* per caller: that call's arguments
  orders,    \* per caller: the orders object _getOrderPages accumulates into
  pending,   \* per caller: requests in flight, each with the callback that
             \*   awaits it and the page its closure holds
  timers,    \* per caller: the pending setTimeout callbacks
  cb,        \* per caller: the (err, res) pairs its callback was called with
  reqlog,    \* per caller: every request the call handed to the transport
  resplog,   \* per caller: every response the transport delivered
  timerlog   \* per caller: the delay of every setTimeout, and the number of
             \*   responses delivered when it was set

vars == <<client, callers, pc, op, args, orders, pending, timers, cb, reqlog,
          resplog, timerlog, now>>

DefaultHeaders == [Accept |-> "application/json", ContentType |-> "application/json"]

\* function Client(options)
Client(api, key, secret) ==
  [api |-> api, key |-> key, secret |-> secret, headers |-> DefaultHeaders]

Init ==
  /\ client \in {Client(a, "k3y", s) : a \in ApiUrls, s \in Secrets}
  \* Without a secret every call is a single turn, and two callers use the
  \* client; with one, one caller does.
  /\ callers = IF client.secret = "" THEN CallIds ELSE {1}
  /\ pc = [c \in CallIds |-> "idle"]
  /\ op = [c \in CallIds |-> ""]
  /\ args = [c \in CallIds |-> Null]
  /\ orders = [c \in CallIds |-> Null]
  /\ pending = [c \in CallIds |-> {}]
  /\ timers = [c \in CallIds |-> {}]
  /\ cb = [c \in CallIds |-> <<>>]
  /\ reqlog = [c \in CallIds |-> <<>>]
  /\ resplog = [c \in CallIds |-> <<>>]
  /\ timerlog = [c \in CallIds |-> <<>>]
  /\ now = 0

\* ------------------------------------------------------ the server's answers
Failures ==
  {Response("httperr", Null, e) : e \in ServerErrors}
    \cup {Response("neterr", Null, "")}

\* A body with nothing the client reads.
PlainAnswers == {Response("ok", Body(Null, <<>>, Null), "")} \cup Failures

OrderAnswers ==
  {Response("ok", Body([id |-> i, state |-> s], <<>>, Null), "") :
     i \in OrderIds, s \in OrderStates} \cup Failures

\* The states of the orders of one page, in the page's order.
PageContents ==
  {<<>>, <<"traded">>, <<"pending", "traded">>, <<"traded", "pending">>}

\* The meta of a first page, and the meta of a further page: one that calls
\* for more pages than the first did, and one that calls for none.
Metas ==
  [current_page : 0..MaxPages, total_pages : 0..MaxPages, total_count : TotalCounts]
LaterMetas ==
  {[current_page |-> 0, total_pages |-> MaxPages + 1, total_count |-> 0],
   [current_page |-> MaxPages, total_pages |-> 0, total_count |-> 9]}

\* The orders of the page that answers the n-th request of a call: every
\* order of a listing has its own id.
PageOrders(n, states) ==
  [i \in 1..Len(states) |-> [id |-> n * 10 + i, state |-> states[i]]]

PageAnswers(n) ==
  {Response("ok", Body(Null, PageOrders(n, s), m), "") :
     s \in PageContents, m \in Metas} \cup Failures

LaterPageAnswers(n) ==
  {Response("ok", Body(Null, PageOrders(n, s), m), "") :
     s \in PageContents, m \in LaterMetas} \cup Failures

\* ------------------------------------------------------------ one turn
\* The effect of a turn of caller c that ends with `out`, given the requests
\* and timers that stay outstanding; kont names the callback a request sent in
\* this turn awaits, page the page number that callback's closure holds.
Settle(c, out, kont, page, stillPending, stillTimers) ==
  /\ cb' = [cb EXCEPT ![c] =
              IF out.kind = "callback"
              THEN Append(@, [err |-> out.err, res |-> out.res]) ELSE @]
  /\ reqlog' = [reqlog EXCEPT ![c] =
                  IF out.kind = "send" THEN Append(@, out.req) ELSE @]
  /\ pending' = [pending EXCEPT ![c] =
                   IF out.kind = "send"
                   THEN stillPending \cup
                          {[req |-> Len(reqlog[c]) + 1, kont |-> kont, page |-> page]}
                   ELSE stillPending]
  /\ timers' = [timers EXCEPT ![c] =
                  IF out.kind = "timer"
                  THEN stillTimers \cup {[response |-> out.res]}
                  ELSE stillTimers]
  /\ timerlog' = [timerlog EXCEPT ![c] =
                    IF out.kind = "timer"
                    THEN Append(@, [delay |-> PollDelay, after |-> Len(resplog'[c])])
                    ELSE @]
  /\ pc' = [pc EXCEPT ![c] =
              CASE out.kind = "callback" -> "done"
                [] out.kind = "throw" -> "thrown"
                [] OTHER -> "active"]

\* Caller c calls operation name with arguments a; the call's synchronous part
\* ends with `out`.
Begin(c, name, a, out, kont, page, acc) ==
  /\ c \in callers
  /\ pc[c] = "idle"
  /\ op' = [op EXCEPT ![c] = name]
  /\ args' = [args EXCEPT ![c] = a]
  /\ orders' = [orders EXCEPT ![c] = acc]
  /\ resplog' = resplog
  /\ Settle(c, out, kont, page, {}, {})
  /\ UNCHANGED <<client, callers, now>>

\* ------------------------------------------------------- the calls' inputs
Types == {"bid", "ASK"}
Amounts == {1}
BalanceCurrencies == {"", "btc"}
MarketOrders == {"", "true", "function"}
NewOrders == {[type |-> "Bid", price_type |-> "market", amount |-> 1]}
PageNumbers == {0, 2}
StateFilters == PageStates
PollTargets == {"traded", "canceled"}
BankOpts ==
  {[bank_name |-> n, bank_currency |-> "cop", bank_account_number |-> "0042"] :
     n \in {"Bancolombia", "NoSuchBank"}}
WithdrawalOpts ==
  [currency : {"btc", "clp"}, target_address : Addresses, amount : Amounts]
DepositOpts == [currency : {"clp"}, amount : Amounts]

\* Envelopes a caller hands to pollOrderState: a failure, or an order in any state.
OrderEnvelopes ==
  {ApiKeyRequired} \cup
    {success(Body([id |-> i, state |-> s], <<>>, Null)) :
       i \in OrderIds, s \in OrderStates}

\* Envelopes a caller hands to pollOrders: a failure, or a first page.
PageEnvelopes ==
  {ApiKeyRequired} \cup
    {success(Body(Null, PageOrders(0, <<"pending", "traded">>),
                  [current_page |-> 1, total_pages |-> t, total_count |-> 9])) :
       t \in {1, 2}}

\* ------------------------------------------------- actions: a caller calls
CallGetBalances(c) ==
  \E currency \in BalanceCurrencies :
    Begin(c, "getBalances", [currency |-> currency],
          getBalances(client, currency), "callback", 0, Null)

CallGetExchangeFee(c) ==
  \E m \in MarketIds, t \in Types, mo \in MarketOrders :
    Begin(c, "getExchangeFee", [marketId |-> m, type |-> t, marketOrder |-> mo],
          getExchangeFee(client, m, t, mo), "callback", 0, Null)

CallGetQuotation(c) ==
  \E m \in MarketIds, t \in Types, a \in Amounts :
    Begin(c, "getQuotation", [marketId |-> m, type |-> t, amount |-> a],
          getQuotation(client, m, t, a), "callback", 0, Null)

CallGetReverseQuotation(c) ==
  \E m \in MarketIds, t \in Types, a \in Amounts :
    Begin(c, "getReverseQuotation", [marketId |-> m, type |-> t, amount |-> a],
          getReverseQuotation(client, m, t, a), "callback", 0, Null)

CallCreateOrder(c) ==
  \E m \in MarketIds, o \in NewOrders :
    Begin(c, "createOrder", [marketId |-> m, order |-> o],
          createOrder(client, m, o), "callback", 0, Null)

CallGetOrdersRaw(c) ==
  \E m \in MarketIds, p \in PageNumbers :
    Begin(c, "getOrdersRaw", [marketId |-> m, page |-> p],
          getOrdersRaw(client, m, p), "callback", 0, Null)

\* Client.prototype.getOrders: async.waterfall hands the callback whatever its
\* first task, getOrdersRaw(marketId, 0, next), passes to next with an error.
CallGetOrders(c) ==
  \E m \in MarketIds :
    Begin(c, "getOrders", [marketId |-> m, state |-> ""],
          getOrdersRaw(client, m, 0), "getOrders", 0, Null)

\* Client.prototype.getOrdersByState
CallGetOrdersByState(c) ==
  \E m \in MarketIds, s \in StateFilters :
    Begin(c, "getOrdersByState", [marketId |-> m, state |-> s],
          getOrdersRaw(client, m, 0), "getOrders", 0, Null)

CallGetOrderId(c) ==
  \E i \in OrderIds :
    Begin(c, "getOrderId", [orderId |-> i],
          getOrderId(client, i), "callback", 0, Null)

CallCancelOrderId(c) ==
  \E i \in OrderIds :
    Begin(c, "cancelOrderId", [orderId |-> i],
          cancelOrderId(client, i), "cancelOrderId", 0, Null)

\* cancelOrderId of the src/index.js client; its .end handler is that of
\* cancelOrderId.
CallCancelOrderIdV1(c) ==
  \E i \in OrderIds :
    Begin(c, "cancelOrderId", [orderId |-> i],
          cancelOrderIdV1(client, i), "cancelOrderId", 0, Null)

CallPollOrders(c) ==
  \E o \in PageEnvelopes, m \in MarketIds, s \in {""} \cup StateFilters :
    LET turn == pollOrders(client, o, m, s)
    IN  Begin(c, "pollOrders", [orders |-> o, marketId |-> m, state |-> s],
              turn.out, "_getOrderPages", turn.page, turn.orders)

CallPollOrderState(c) ==
  \E o \in OrderEnvelopes, s \in PollTargets :
    Begin(c, "pollOrderState", [order |-> o, status |-> s],
          pollOrderState(client, o, s), "_getOrderState", 0, Null)

\* Client.prototype.createAndTradeOrder: the waterfall's first task
CallCreateAndTradeOrder(c) ==
  \E m \in MarketIds, o \in NewOrders :
    Begin(c, "createAndTradeOrder", [marketId |-> m, order |-> o],
          createOrder(client, m, o), "createAndTradeOrder", 0, Null)

CallRegisterBankAccount(c) ==
  \E o \in BankOpts :
    Begin(c, "registerBankAccount", [opts |-> o],
          registerBankAccount(client, o), "callback", 0, Null)

CallRequestWithdrawal(c) ==
  \E o \in WithdrawalOpts :
    Begin(c, "requestWithdrawal", [opts |-> o],
          requestWithdrawal(client, o), "callback", 0, Null)

CallRegisterDeposit(c) ==
  \E o \in DepositOpts :
    Begin(c, "registerDeposit", [opts |-> o],
          registerDeposit(client, o), "callback", 0, Null)

\* --------------------------------------- actions: the transport answers
\* What the server may answer to request p of caller c.
AnswersTo(c, p) ==
  IF op[c] \in {"getOrderId", "createOrder"} THEN OrderAnswers
  ELSE IF op[c] = "getOrdersRaw" THEN PageAnswers(p.req)
  ELSE PlainAnswers

\* The response to request p of caller c reaches its .end handler.
Delivered(c, p, resp) ==
  resplog' = [resplog EXCEPT ![c] = Append(@, [req |-> p.req, response |-> resp])]

\* The target state of caller c's poll: pollOrderState's status, 'traded' for
\* createAndTradeOrder (line 439).
PollStatus(c) ==
  IF op[c] = "createAndTradeOrder" THEN "traded" ELSE args[c].status

\* The .end handler of a single-request function calls the caller's callback.
EndRequest(c) ==
  \E p \in pending[c] :
    /\ p.kont = "callback"
    /\ \E resp \in AnswersTo(c, p) :
         /\ Delivered(c, p, resp)
         /\ Settle(c, end(resp), "callback", 0, pending[c] \ {p}, timers[c])
    /\ UNCHANGED <<client, callers, now, op, args, orders>>

\* The .end handler of cancelOrderId
EndCancelOrderId(c) ==
  \E p \in pending[c] :
    /\ p.kont = "cancelOrderId"
    /\ \E resp \in OrderAnswers :
         /\ Delivered(c, p, resp)
         /\ Settle(c, endCancelOrderId(resp), "callback", 0,
                   pending[c] \ {p}, timers[c])
    /\ UNCHANGED <<client, callers, now, op, args, orders>>

\* getOrders / getOrdersByState: the first page arrives; the waterfall passes
\* an error to the callback, and a page on to pollOrders.
EndFirstPage(c) ==
  \E p \in pending[c] :
    /\ p.kont = "getOrders"
    /\ \E resp \in PageAnswers(p.req) :
         LET first == end(resp)
             turn == IF first.kind = "callback" /\ first.err = Null
                     THEN pollOrders(client, first.res, args[c].marketId,
                                     args[c].state)
                     ELSE [orders |-> orders[c], page |-> 0, out |-> first]
         IN  /\ Delivered(c, p, resp)
             /\ orders' = [orders EXCEPT ![c] = turn.orders]
             /\ Settle(c, turn.out, "_getOrderPages", turn.page,
                       pending[c] \ {p}, timers[c])
    /\ UNCHANGED <<client, callers, now, op, args>>

\* Mutant of EndNextPage: the accumulator is one object shared by all the
\* calls, not an object of the call's own.
EndNextPage_SharedAccumulator(c) ==
  \E p \in pending[c] :
    /\ p.kont = "_getOrderPages"
    /\ \E resp \in LaterPageAnswers(p.req) :
         LET raw == end(resp)
             turn == IF raw.kind = "throw"
                     THEN [orders |-> orders[c], page |-> p.page, out |-> raw]
                     ELSE getOrdersRawCallback(client, orders[c], args[c].marketId,
                                               args[c].state, p.page, raw.err,
                                               raw.res)
         IN  /\ Delivered(c, p, resp)
             /\ orders' = [d \in CallIds |-> turn.orders]
             /\ Settle(c, turn.out, "_getOrderPages", turn.page,
                       pending[c] \ {p}, timers[c])
    /\ UNCHANGED <<client, callers, now, op, args>>

\* A further page arrives at the callback _getOrderPages gave getOrdersRaw.
EndNextPage(c) ==
  \E p \in pending[c] :
    /\ p.kont = "_getOrderPages"
    /\ \E resp \in LaterPageAnswers(p.req) :
         LET raw == end(resp)
             turn == IF raw.kind = "throw"
                     THEN [orders |-> orders[c], page |-> p.page, out |-> raw]
                     ELSE getOrdersRawCallback(client, orders[c], args[c].marketId,
                                               args[c].state, p.page, raw.err,
                                               raw.res)
         IN  /\ Delivered(c, p, resp)
             /\ orders' = [orders EXCEPT ![c] = turn.orders]
             /\ Settle(c, turn.out, "_getOrderPages", turn.page,
                       pending[c] \ {p}, timers[c])
    /\ UNCHANGED <<client, callers, now, op, args>>

\* createAndTradeOrder: createOrder's response arrives; the waterfall passes
\* an error to the callback, and the created order on to pollOrderState.
EndCreateOrder(c) ==
  \E p \in pending[c] :
    /\ p.kont = "createAndTradeOrder"
    /\ \E resp \in OrderAnswers :
         LET created == end(resp)
             out == IF created.kind = "callback" /\ created.err = Null
                    THEN pollOrderState(client, created.res, PollStatus(c))
                    ELSE created
         IN  /\ Delivered(c, p, resp)
             /\ Settle(c, out, "_getOrderState", 0, pending[c] \ {p}, timers[c])
    /\ UNCHANGED <<client, callers, now, op, args, orders>>

\* The refetches of caller c's poll that were answered.
Refetches(c) ==
  LET IsRefetch(r) == reqlog[c][r.req].path[1] = "/orders/"
  IN  Len(SelectSeq(resplog[c], IsRefetch))

\* A refetched order arrives at the callback _getOrderState gave getOrderId.
EndGetOrderId(c) ==
  \E p \in pending[c] :
    /\ p.kont = "_getOrderState"
    /\ Refetches(c) < MaxPolls
    /\ \E resp \in OrderAnswers :
         LET got == end(resp)
             out == IF got.kind = "throw" THEN got
                    ELSE getOrderIdCallback(got.err, got.res)
         IN  /\ Delivered(c, p, resp)
             /\ Settle(c, out, "_getOrderState", 0, pending[c] \ {p}, timers[c])
    /\ UNCHANGED <<client, callers, now, op, args, orders>>

\* The 500 ms timer fires: loopFunction(response, status, callback, loopFunction)
Timeout(c) ==
  \E t \in timers[c] :
    /\ resplog' = resplog
    /\ Settle(c, _getOrderState(client, t.response, PollStatus(c)),
              "_getOrderState", 0, pending[c], timers[c] \ {t})
    /\ UNCHANGED <<client, callers, now, op, args, orders>>

\* The caller goes on after its callback ran (or after the exception): the
\* call's records are dropped and the caller may call again.
Return(c) ==
  /\ pc[c] \in {"done", "thrown"}
  /\ pc' = [pc EXCEPT ![c] = "idle"]
  /\ op' = [op EXCEPT ![c] = ""]
  /\ args' = [args EXCEPT ![c] = Null]
  /\ orders' = [orders EXCEPT ![c] = Null]
  /\ pending' = [pending EXCEPT ![c] = {}]
  /\ timers' = [timers EXCEPT ![c] = {}]
  /\ cb' = [cb EXCEPT ![c] = <<>>]
  /\ reqlog' = [reqlog EXCEPT ![c] = <<>>]
  /\ resplog' = [resplog EXCEPT ![c] = <<>>]
  /\ timerlog' = [timerlog EXCEPT ![c] = <<>>]
  /\ UNCHANGED <<client, callers, now>>

\* A millisecond passes between two turns.
Tick ==
  /\ now < MaxClock
  /\ now' = now + 1
  /\ UNCHANGED <<client, callers, pc, op, args, orders, pending, timers, cb,
                 reqlog, resplog, timerlog>>

\* A turn of caller c.
Turn(c) ==
  \/ CallGetBalances(c)
  \/ CallGetExchangeFee(c)
  \/ CallGetQuotation(c)
  \/ CallGetReverseQuotation(c)
  \/ CallCreateOrder(c)
  \/ CallGetOrdersRaw(c)
  \/ CallGetOrders(c)
  \/ CallGetOrdersByState(c)
  \/ CallGetOrderId(c)
  \/ CallCancelOrderId(c)
  \/ CallCancelOrderIdV1(c)
  \/ CallPollOrders(c)
  \/ CallPollOrderState(c)
  \/ CallCreateAndTradeOrder(c)
  \/ CallRegisterBankAccount(c)
  \/ CallRequestWithdrawal(c)
  \/ CallRegisterDeposit(c)
  \/ EndRequest(c)
  \/ EndCancelOrderId(c)
  \/ EndFirstPage(c)
  \/ EndNextPage(c)
  \/ EndCreateOrder(c)
  \/ EndGetOrderId(c)
  \/ Timeout(c)
  \/ Return(c)

\* The calls of the callers of one client, at one reading of the clock: but
\* for the nonce it puts in a request, no operation reads the clock.
Next == \E c \in CallIds : Turn(c)

Spec == Init /\ [][Next]_vars

\* ------------------------------------------- two concurrent calls, and the clock
\* Both callers use a client that has a secret; each makes one call, caller 1
\* a listing and caller 2 a listing or createAndTradeOrder, while the clock runs.
InitConcurrent ==
  /\ client = Client(DefaultApi, "k3y", "s3cr3t")
  /\ callers = CallIds
  /\ pc = [c \in CallIds |-> "idle"]
  /\ op = [c \in CallIds |-> ""]
  /\ args = [c \in CallIds |-> Null]
  /\ orders = [c \in CallIds |-> Null]
  /\ pending = [c \in CallIds |-> {}]
  /\ timers = [c \in CallIds |-> {}]
  /\ cb = [c \in CallIds |-> <<>>]
  /\ reqlog = [c \in CallIds |-> <<>>]
  /\ resplog = [c \in CallIds |-> <<>>]
  /\ timerlog = [c \in CallIds |-> <<>>]
  /\ now = 0

\* The server of the concurrent calls: a first page is page 1 of one or two
\* pages, a page holds a traded and a pending order, a further page calls for
\* more pages, an order that is fetched is pending or traded.
ServedConcurrently(c) ==
  LET r == resplog'[c][Len(resplog'[c])].response
  IN  r.outcome = "ok" =>
        /\ r.body.order # Null => r.body.order.state \in {"pending", "traded"}
        /\ r.body.order = Null =>
             /\ Len(r.body.orders) = 2
             /\ r.body.orders[1].state = "traded"
        /\ r.body.meta # Null =>
             IF Len(resplog'[c]) = 1
             THEN /\ r.body.meta.current_page = 1
                  /\ r.body.meta.total_pages \in {1, 2}
             ELSE r.body.meta.total_pages = MaxPages + 1

ConcurrentTurn(c) ==
  \/ CallGetOrders(c)
  \/ CallGetOrdersByState(c) /\ args'[c].state = "traded"
  \/ c = 2 /\ CallCreateAndTradeOrder(c)
  \/ EndFirstPage(c) /\ ServedConcurrently(c)
  \/ EndNextPage(c) /\ ServedConcurrently(c)
  \/ EndCreateOrder(c) /\ ServedConcurrently(c)
  \/ EndGetOrderId(c) /\ ServedConcurrently(c)
  \/ Timeout(c)

NextConcurrent == (\E c \in CallIds : ConcurrentTurn(c)) \/ Tick

SpecConcurrent == InitConcurrent /\ [][NextConcurrent]_vars

\* ------------------------------------------------------------- the claims
\* The one (err, res) pair a finished call's callback must have been given.
CalledBack(c, e, r) == cb[c] = <<[err |-> e, res |-> r]>>

C2_ApiKeyRequiredForAllArguments ==
  client.secret = "" =>
    \A c \in CallIds : pc[c] # "idle" => CalledBack(c, ApiKeyRequired, Null)

\* The network the endpoint implies: test for a staging endpoint (the marker
\* 'stg' occurs in the api URL, at whatever position), main otherwise.
ImpliedNetwork(api) ==
  IF IndexOf(api, <<"s","t","g">>) >= 0 THEN "testnet" ELSE "prod"

\* C3: for every api base URL, requestWithdrawal of BTC to an address that is
\* invalid for the network the endpoint implies calls back with
\* InvalidRequest:InvalidBitcoinAddress and issues no request.
C3_InvalidAddressRejected ==
  \A c \in CallIds :
    /\ op[c] = "requestWithdrawal"
    /\ toUpper(args[c].opts.currency) = "BTC"
    /\ ~validate(args[c].opts.target_address, ImpliedNetwork(client.api))
    => /\ CalledBack(c, invalidRequest("InvalidRequest:InvalidBitcoinAddress"), Null)
       /\ reqlog[c] = <<>>

\* C4: with a secret and a transport success, cancelOrderId calls back with
\* (null, envelope) iff the returned order is 'canceling' or 'canceled', and
\* otherwise with (envelope, null), the envelope marked a failure of kind
\* order_not_valid_for_canceling.
C4_CancelOnlyWhenCanceling ==
  \A c \in CallIds :
    /\ op[c] = "cancelOrderId"
    /\ client.secret # ""
    /\ resplog[c] # <<>>
    /\ resplog[c][1].response.outcome = "ok"
    => LET body == resplog[c][1].response.body
           envelope == Envelope(TRUE, "", body.order, <<>>, Null)
       IN  IF body.order.state \in {"canceling", "canceled"}
           THEN CalledBack(c, Null, envelope)
           ELSE CalledBack(c,
                           [envelope EXCEPT
                              !.success = FALSE,
                              !.error_type = "order_not_valid_for_canceling"],
                           Null)

\* A cancel that the server answered with a 'filled' order was rejected.
C4_Witness ==
  \E c \in CallIds :
    /\ op[c] = "cancelOrderId"
    /\ pc[c] = "done"
    /\ resplog[c] # <<>>
    /\ resplog[c][1].response.outcome = "ok"
    /\ resplog[c][1].response.body.order.state = "filled"
    /\ cb[c][1].err # Null
    /\ cb[c][1].err.error_type = "order_not_valid_for_canceling"

\* Caller c runs getOrders or getOrdersByState.
Paging(c) == op[c] \in {"getOrders", "getOrdersByState"}

\* Every response caller c's call has received is a success.
AllFetched(c) ==
  \A i \in 1..Len(resplog[c]) : resplog[c][i].response.outcome = "ok"

\* The page number a page request asks for: 0 without a query string.
RequestedPage(req) ==
  IF Len(req.path) = 3 THEN 0
  ELSE CHOOSE n \in 0..(MaxPages + 1) : ToString(n) = req.path[5]

RequestedPages(c) == [i \in 1..Len(reqlog[c]) |-> RequestedPage(reqlog[c][i])]

\* The meta of the first page caller c received.
FirstMeta(c) == resplog[c][1].response.body.meta

\* The orders of the pages caller c received, in the order received.
RECURSIVE FetchedOrders(_)
FetchedOrders(log) ==
  IF log = <<>> THEN <<>>
  ELSE FetchedOrders(SubSeq(log, 1, Len(log) - 1))
         \o log[Len(log)].response.body.orders

\* C5 as stated: a listing of N pages numbered 0..N-1 (the first response
\* reports current_page 0 and total_pages N) takes exactly N page requests,
\* none for a page outside 0..N-1.
C5_ExactlyNRequests ==
  \A c \in CallIds :
    /\ Paging(c) /\ pc[c] = "done" /\ resplog[c] # <<>> /\ AllFetched(c)
    /\ FirstMeta(c).current_page = 0
    /\ FirstMeta(c).total_pages >= 1
    => /\ Len(reqlog[c]) = FirstMeta(c).total_pages
       /\ \A i \in 1..Len(reqlog[c]) :
            RequestedPages(c)[i] \in 0..(FirstMeta(c).total_pages - 1)

\* C5 amended: when the first response reports current_page p and total_pages
\* N and every fetch succeeds, the requests are the initial one (page 0) and
\* then pages p+1, ..., N in this order: 1 + max(0, N - p) requests, which for
\* pages numbered from 0 is N + 1 requests, the last one for page N.
C5_RequestsUpToTotalPages ==
  \A c \in CallIds :
    /\ Paging(c) /\ pc[c] = "done" /\ resplog[c] # <<>> /\ AllFetched(c)
    => LET p == FirstMeta(c).current_page
           N == FirstMeta(c).total_pages
           further == IF N > p THEN N - p ELSE 0
       IN  RequestedPages(c) =
             [i \in 1..(1 + further) |-> IF i = 1 THEN 0 ELSE p + i - 1]

\* The spec's case: pages 0, 1, 2 and total_pages 3 took four requests.
C5_Witness ==
  \E c \in CallIds :
    /\ op[c] = "getOrders" /\ pc[c] = "done" /\ resplog[c] # <<>> /\ AllFetched(c)
    /\ FirstMeta(c).current_page = 0
    /\ FirstMeta(c).total_pages = 3
    /\ RequestedPages(c) = <<0, 1, 2, 3>>

\* C6: when every page fetch succeeds, getOrders returns exactly the orders of
\* the fetched pages, concatenated in page order.
C6_OrdersAreConcatenation ==
  \A c \in CallIds :
    /\ op[c] = "getOrders" /\ pc[c] = "done" /\ resplog[c] # <<>> /\ AllFetched(c)
    => /\ Len(cb[c]) = 1
       /\ cb[c][1].err = Null
       /\ cb[c][1].res.orders = FetchedOrders(resplog[c])

\* Three pages, each of two orders, were returned as six orders.
C6_Witness ==
  \E c \in CallIds :
    /\ op[c] = "getOrders" /\ pc[c] = "done" /\ AllFetched(c)
    /\ Len(resplog[c]) = 3
    /\ \A i \in 1..3 : Len(resplog[c][i].response.body.orders) = 2
    /\ Len(cb[c][1].res.orders) = 6

\* C7: when every page fetch succeeds, getOrdersByState returns exactly the
\* orders of the fetched pages that are in the given state, and its meta
\* total_count is their number, whatever current_page and total_pages the
\* server reports.
C7_FilteredWithCount ==
  \A c \in CallIds :
    /\ op[c] = "getOrdersByState" /\ pc[c] = "done" /\ resplog[c] # <<>>
    /\ AllFetched(c)
    => /\ Len(cb[c]) = 1
       /\ cb[c][1].err = Null
       /\ cb[c][1].res.orders = filter(FetchedOrders(resplog[c]), args[c].state)
       /\ cb[c][1].res.meta.total_count = Len(cb[c][1].res.orders)

\* C8: when a page fetch of getOrders or getOrdersByState fails, the callback
\* gets that error and a null result, and no request follows the failed one.
C8_FailedPageEndsTheCall ==
  \A c \in CallIds :
    /\ Paging(c) /\ resplog[c] # <<>>
    /\ resplog[c][Len(resplog[c])].response.outcome # "ok"
    => /\ Len(cb[c]) = 1
       /\ cb[c][1].err # Null
       /\ cb[c][1].err.success = FALSE
       /\ cb[c][1].err.error_type = resplog[c][Len(resplog[c])].response.error
       /\ cb[c][1].res = Null
       /\ Len(reqlog[c]) = Len(resplog[c])
       /\ pending[c] = {}

\* The i-th response of caller c is a refetched order in state `state`.
Reports(c, i, state) ==
  /\ resplog[c][i].response.outcome = "ok"
  /\ resplog[c][i].response.body.order.state = state

\* The k-th refetch of caller c's poll is the first to report the target.
FirstReports(c, k, target) ==
  /\ Reports(c, k, target)
  /\ \A j \in 1..(k - 1) :
       /\ resplog[c][j].response.outcome = "ok"
       /\ ~Reports(c, j, target)

\* C9: pollOrderState(order, target) given a failure envelope, or an order
\* already in the target state, calls back with that envelope after no
\* refetch and no delay. Otherwise, when the k-th refetch is the first to
\* report the target state (the earlier ones succeeding), it has made exactly
\* k getOrderId requests and set exactly k delays of 500, the i-th right after
\* the i-th response and, while it is pending, before any further check; once
\* the k-th delay is over the callback has the k-th refetched order.
C9_PollUntilTarget ==
  \A c \in CallIds :
    op[c] = "pollOrderState" =>
      LET given == args[c].order
          target == args[c].status
      IN  /\ (~given.success \/ given.order.state = target) =>
                /\ pc[c] = "done"
                /\ CalledBack(c, Null, given)
                /\ reqlog[c] = <<>>
                /\ timerlog[c] = <<>>
          /\ \A k \in 1..Len(resplog[c]) :
               FirstReports(c, k, target) =>
                 /\ Len(reqlog[c]) = k
                 /\ \A i \in 1..k : reqlog[c][i].path[1] = "/orders/"
                 /\ timerlog[c] = [i \in 1..k |-> [delay |-> 500, after |-> i]]
                 /\ pending[c] = {}
                 /\ IF timers[c] # {}
                    THEN pc[c] = "active" /\ cb[c] = <<>>
                    ELSE /\ pc[c] = "done"
                         /\ CalledBack(c, Null,
                                       Envelope(TRUE, "",
                                                resplog[c][k].response.body.order,
                                                <<>>, Null))

\* A poll whose second refetch was the first to report the target called back
\* after two requests and two delays.
C9_Witness ==
  \E c \in CallIds :
    /\ op[c] = "pollOrderState" /\ pc[c] = "done"
    /\ Len(resplog[c]) = 2
    /\ FirstReports(c, 2, args[c].status)
    /\ Len(timerlog[c]) = 2
    /\ cb[c][1].res.order.state = args[c].status

\* C10: createAndTradeOrder requests createOrder first and getOrderId only
\* after createOrder succeeded; a success it reports wraps a 'traded' order;
\* when createOrder or a refetch fails the callback gets that error and a null
\* result, and no request follows the failure.
C10_CreateThenPoll ==
  \A c \in CallIds :
    op[c] = "createAndTradeOrder" =>
      /\ \A i \in 1..Len(reqlog[c]) :
           IF i = 1
           THEN reqlog[c][i].method = "POST" /\ reqlog[c][i].path[3] = "/orders"
           ELSE /\ reqlog[c][i].method = "GET" /\ reqlog[c][i].path[1] = "/orders/"
                /\ resplog[c][1].response.outcome = "ok"
      /\ \A i \in 1..Len(cb[c]) :
           cb[c][i].err = Null => cb[c][i].res.order.state = "traded"
      /\ (resplog[c] # <<>> /\ resplog[c][Len(resplog[c])].response.outcome # "ok")
           => /\ Len(cb[c]) = 1
              /\ cb[c][1].err # Null
              /\ cb[c][1].err.error_type =
                   resplog[c][Len(resplog[c])].response.error
              /\ cb[c][1].res = Null
              /\ Len(reqlog[c]) = Len(resplog[c])
              /\ pending[c] = {}

\* C11: any two distinct authenticated requests issued through one client
\* carry different nonces, hence different signed messages, be they
\* consecutive requests of one paging or polling operation or requests of two
\* concurrent calls, however little the clock advances between them.
C11_DistinctNonces ==
  \A c, d \in CallIds :
    \A i \in 1..Len(reqlog[c]), j \in 1..Len(reqlog[d]) :
      <<c, i>> # <<d, j>> =>
        /\ reqlog[c][i].headers.nonce # reqlog[d][j].headers.nonce
        /\ reqlog[c][i].headers.signature # reqlog[d][j].headers.signature

\* Caller c's call has sent requests, and each of them has received its
\* outcome, with no timer left to fire.
AllAnswered(c) ==
  /\ reqlog[c] # <<>>
  /\ Len(resplog[c]) = Len(reqlog[c])
  /\ pending[c] = {}
  /\ timers[c] = {}

\* C12: a facade operation whose HTTP requests have all received an outcome
\* (a success, an HTTP error with a server response, or a network-level
\* failure without one) has called its callback exactly once, with exactly
\* one of (error, result) non-null.
C12_CallbackExactlyOnce ==
  \A c \in CallIds :
    AllAnswered(c) =>
      /\ Len(cb[c]) = 1
      /\ (cb[c][1].err = Null) # (cb[c][1].res = Null)

\* The responses caller c's call has received, in the order received.
Responses(c) == [i \in 1..Len(resplog[c]) |-> resplog[c][i].response]

\* What a listing does when it runs alone and its page requests receive
\* `rest` after the turn `turn`: the callback it makes, the exception it
\* throws, or the request it waits on.
RECURSIVE FollowAlone(_, _, _)
FollowAlone(a, turn, rest) ==
  IF turn.out.kind # "send" \/ rest = <<>> THEN turn.out
  ELSE LET raw == end(Head(rest))
       IN  IF raw.kind = "throw" THEN raw
           ELSE FollowAlone(a,
                            getOrdersRawCallback(client, turn.orders, a.marketId,
                                                 a.state, turn.page, raw.err,
                                                 raw.res),
                            Tail(rest))

\* getOrders / getOrdersByState with arguments a, alone, receiving `responses`.
ListAlone(a, responses) ==
  IF responses = <<>> THEN getOrdersRaw(client, a.marketId, 0)
  ELSE LET first == end(Head(responses))
       IN  IF first.kind = "throw" \/ first.err # Null THEN first
           ELSE FollowAlone(a, pollOrders(client, first.res, a.marketId, a.state),
                            Tail(responses))

\* A poll for `status` that has come to `order`, alone, its refetches
\* receiving `rest` and every delay having elapsed.
RECURSIVE StateAlone(_, _, _)
StateAlone(order, status, rest) ==
  LET out == _getOrderState(client, order, status)
  IN  IF out.kind # "send" \/ rest = <<>> THEN out
      ELSE LET got == end(Head(rest))
               slept == getOrderIdCallback(got.err, got.res)
           IN  IF got.kind = "throw" THEN got
               ELSE IF slept.kind = "timer"
               THEN StateAlone(slept.res, status, Tail(rest))
               ELSE slept

\* createAndTradeOrder with arguments a, alone, receiving `responses`.
TradeAlone(a, responses) ==
  IF responses = <<>> THEN createOrder(client, a.marketId, a.order)
  ELSE LET created == end(Head(responses))
       IN  IF created.kind = "throw" \/ created.err # Null THEN created
           ELSE StateAlone(created.res, "traded", Tail(responses))

\* What caller c's call yields when it runs alone against the responses it
\* has received.
RunAlone(c) ==
  IF Paging(c) THEN ListAlone(args[c], Responses(c))
  ELSE TradeAlone(args[c], Responses(c))

\* Caller c's call stands, with no delay pending, where it stands when run alone.
AsAlone(c) ==
  LET alone == RunAlone(c)
  IN  CASE alone.kind = "callback" ->
             pc[c] = "done" /\ CalledBack(c, alone.err, alone.res)
        [] alone.kind = "throw" -> pc[c] = "thrown" /\ cb[c] = <<>>
        [] OTHER -> /\ pc[c] = "active" /\ cb[c] = <<>>
                    /\ \E p \in pending[c] :
                         /\ pending[c] = {p}
                         /\ reqlog[c][p.req].method = alone.req.method
                         /\ reqlog[c][p.req].path = alone.req.path
                         /\ reqlog[c][p.req].body = alone.req.body

\* C13: two calls issued concurrently on one client are independent: for
\* every interleaving of their responses and poll delays each call's result
\* is the result it yields when run alone against the same responses, and no
\* operation changes the client's api, key, secret or headers.
C13_ConcurrentCallsIndependent ==
  /\ [](\A c \in CallIds : (pc[c] # "idle" /\ timers[c] = {}) => AsAlone(c))
  /\ [][client' = client]_vars

\* A two-page getOrdersByState and a createAndTradeOrder with one refetch
\* have both called back, each having sent its second request after the
\* other's first and a millisecond later.
C13_Witness ==
  /\ op[1] = "getOrdersByState" /\ pc[1] = "done"
  /\ op[2] = "createAndTradeOrder" /\ pc[2] = "done"
  /\ Len(reqlog[1]) = 2 /\ Len(reqlog[2]) = 2
  /\ reqlog[1][1].headers.nonce = 0 /\ reqlog[2][1].headers.nonce = 0
  /\ reqlog[1][2].headers.nonce = 1 /\ reqlog[2][2].headers.nonce = 1
  /\ cb[1][1].err = Null /\ Len(cb[1][1].res.orders) = 2
  /\ cb[2][1].err = Null /\ cb[2][1].res.order.state = "traded"

\* The poll of caller c has observed its target state: in the order it was
\* given or in a refetched one.
TargetObserved(c) ==
  \/ args[c].order.success /\ args[c].order.order.state = args[c].status
  \/ \E i \in 1..Len(resplog[c]) : Reports(c, i, args[c].status)

\* A refetch of caller c's poll has failed: refused for want of a secret, or
\* answered with a failure.
RefetchFailed(c) ==
  \/ /\ ApiKeyMissing(client)
     /\ args[c].order.success /\ args[c].order.order.state # args[c].status
  \/ /\ resplog[c] # <<>>
     /\ resplog[c][Len(resplog[c])].response.outcome # "ok"

\* C14 as stated: pollOrderState invokes its callback only when a refetch
\* fails or an observed order state equals the target state.
C14_CallbackOnlyOnFailureOrTarget ==
  \A c \in CallIds :
    (op[c] = "pollOrderState" /\ cb[c] # <<>>) =>
      RefetchFailed(c) \/ TargetObserved(c)

\* Every state caller c's poll has observed so far, the given order's and
\* each refetched one, is a state other than the target, and no refetch failed.
NeverTarget(c) ==
  /\ ~ApiKeyMissing(client)
  /\ args[c].order.success /\ args[c].order.order.state # args[c].status
  /\ \A i \in 1..Len(resplog[c]) :
       /\ resplog[c][i].response.outcome = "ok"
       /\ ~Reports(c, i, args[c].status)

\* C14 amended: pollOrderState invokes its callback only when it is given a
\* failure envelope, a refetch fails, or an observed order state equals the
\* target. No count of attempts ends it: as long as every refetch succeeds
\* and reports a state other than the target (a terminal one included), after
\* k responses the callback has not been invoked, k delays of 500 have been
\* set, one after each response, and the poll waits either on the k-th delay
\* or on its (k+1)-th getOrderId request.
C14_PollsWhileNotTarget ==
  \A c \in CallIds :
    op[c] = "pollOrderState" =>
      /\ cb[c] # <<>> =>
           ~args[c].order.success \/ RefetchFailed(c) \/ TargetObserved(c)
      /\ NeverTarget(c) =>
           LET k == Len(resplog[c])
           IN  /\ cb[c] = <<>> /\ pc[c] = "active"
               /\ timerlog[c] = [i \in 1..k |-> [delay |-> PollDelay, after |-> i]]
               /\ \A i \in 1..Len(reqlog[c]) : reqlog[c][i].path[1] = "/orders/"
               /\ IF timers[c] # {}
                  THEN pending[c] = {} /\ Len(reqlog[c]) = k
                  ELSE Cardinality(pending[c]) = 1 /\ Len(reqlog[c]) = k + 1

\* A poll for 'traded' whose refetches all reported 'canceled' has not called
\* back and waits on one more getOrderId request.
C14_Witness ==
  \E c \in CallIds :
    /\ op[c] = "pollOrderState" /\ args[c].status = "traded"
    /\ Len(resplog[c]) = MaxPolls
    /\ \A i \in 1..MaxPolls : Reports(c, i, "canceled")
    /\ Len(reqlog[c]) = MaxPolls + 1
    /\ pending[c] # {} /\ cb[c] = <<>> /\ pc[c] = "active"

\* C15: getOrders and getOrdersByState terminate when every request receives
\* an outcome. A follow-up request is issued only while the page counter is
\* below the total_pages of the first response, and asks for the counter's
\* next value, the counter starting at the first response's current_page and
\* growing by one per follow-up request; so there are at most total_pages
\* minus current_page follow-up requests (none when current_page is not
\* below total_pages), whatever meta the later pages report; and once every
\* request has its outcome the call has ended and waits on nothing.
C15_PagingTerminates ==
  \A c \in CallIds :
    (Paging(c) /\ reqlog[c] # <<>>) =>
      /\ \A i \in 2..Len(reqlog[c]) :
           /\ resplog[c] # <<>>
           /\ resplog[c][1].response.outcome = "ok"
           /\ RequestedPages(c)[i] = FirstMeta(c).current_page + (i - 1)
           /\ RequestedPages(c)[i] - 1 < FirstMeta(c).total_pages
      /\ Len(reqlog[c]) > 1 =>
           Len(reqlog[c]) - 1 <= FirstMeta(c).total_pages - FirstMeta(c).current_page
      /\ Len(resplog[c]) = Len(reqlog[c]) =>
           /\ pc[c] \in {"done", "thrown"}
           /\ pending[c] = {} /\ timers[c] = {}

\* A getOrdersByState whose first response reported page 1 of 3 has ended
\* after two follow-up requests, though both later pages reported page 0 of
\* more pages than the first response did.
C15_Witness ==
  \E c \in CallIds :
    /\ op[c] = "getOrdersByState" /\ pc[c] = "done" /\ AllFetched(c)
    /\ Len(resplog[c]) = 3
    /\ FirstMeta(c).current_page = 1 /\ FirstMeta(c).total_pages = 3
    /\ \A i \in 2..3 :
         /\ resplog[c][i].response.body.meta.current_page = 0
         /\ resplog[c][i].response.body.meta.total_pages > 3
    /\ RequestedPages(c) = <<0, 2, 3>>

\* The getOrderId requests among caller c's requests.
Refetched(c) ==
  LET IsRefetch(r) == r.method = "GET" /\ r.path[1] = "/orders/"
  IN  Len(SelectSeq(reqlog[c], IsRefetch))

\* The delays of caller c's call that have elapsed.
Elapsed(c) == Len(timerlog[c]) - Cardinality(timers[c])

\* C16: within one public call at most one HTTP request is in flight at any
\* time. The pager issues its page requests in strictly increasing page order,
\* each after the response to the previous one has arrived and its orders have
\* been merged into the accumulator; the poller issues each getOrderId after
\* the previous response has arrived and the delay of 500 set on its arrival
\* has elapsed.
C16_OneRequestInFlight ==
  \A c \in CallIds :
    /\ Cardinality(pending[c]) <= 1
    /\ pending[c] # {} => timers[c] = {}
    /\ Len(resplog[c]) <= Len(reqlog[c])
    /\ Len(reqlog[c]) <= Len(resplog[c]) + 1
    /\ Len(reqlog[c]) = Len(resplog[c]) + 1 <=> pending[c] # {}
    /\ op[c] \in {"getOrders", "getOrdersByState", "pollOrders"} =>
         \A i, j \in 1..Len(reqlog[c]) :
           i < j => RequestedPages(c)[i] < RequestedPages(c)[j]
    /\ (Paging(c) /\ resplog[c] # <<>> /\ AllFetched(c)) =>
         orders[c].orders =
           IF args[c].state = "" THEN FetchedOrders(resplog[c])
           ELSE filter(FetchedOrders(resplog[c]), args[c].state)
    /\ op[c] \in {"pollOrderState", "createAndTradeOrder"} =>
         /\ Cardinality(timers[c]) <= 1
         /\ Refetched(c) <= Elapsed(c) + 1
         /\ \A i \in 1..Len(timerlog[c]) :
              /\ timerlog[c][i].delay = PollDelay
              /\ timerlog[c][i].after = Len(reqlog[c]) - Refetched(c) + i

\* A createAndTradeOrder has its second getOrderId in flight: the order was
\* created, the first refetch answered, its delay set and elapsed.
C16_Witness ==
  \E c \in CallIds :
    /\ op[c] = "createAndTradeOrder" /\ pc[c] = "active"
    /\ Len(reqlog[c]) = 3 /\ Len(resplog[c]) = 2
    /\ Cardinality(pending[c]) = 1 /\ timers[c] = {}
    /\ Len(timerlog[c]) = 1 /\ Elapsed(c) = 1

\* C17: the signature of every authenticated request covers exactly the
\* request that is sent: the signed method is the HTTP verb used, the signed
\* path is the request path with its query string, the body is in the signed
\* message iff the request is sent with that body, and the signed nonce is
\* the value of the nonce header.
C17_SignatureCoversRequest ==
  \A c \in CallIds :
    \A i \in 1..Len(reqlog[c]) :
      LET sent == reqlog[c][i]
          signed == sent.headers.signature
      IN  /\ signed # Null
          /\ signed.method = sent.method
          /\ signed.path = sent.path
          /\ (signed.data # Absent) <=> (sent.body # Null)
          /\ sent.body # Null => signed.data = sent.body
          /\ (sent.body # Null) <=> (sent.method \in {"POST", "PUT"})
          /\ signed.nonce = sent.headers.nonce

====
